---------------------------- MODULE Spec2Model ----------------------------
(***************************************************************************)
(* A model of consumer.py: the message validator process_sqs_message, the  *)
(* batch handler lambda_handler and the local poller main with its         *)
(* signal-driven shutdown flag.                                            *)
(*                                                                         *)
(* Two specifications share the module's variables:                        *)
(*   Spec        the local poller (main) interleaved with signal_handler;  *)
(*   HandlerSpec one invocation of lambda_handler on an arbitrary event.   *)
(* Logging is not modelled.                                                *)
(***************************************************************************)
EXTENDS Naturals, Sequences, FiniteSets

(***************************************************************************)
(* Bounds of the model.                                                    *)
(***************************************************************************)
\* most records in one lambda event
MaxRecords == 3
\* most messages one receive_message call returns in the model
MaxBatch == 2
\* most receive_message calls of one poller run
MaxFetches == 2

(***************************************************************************)
(* Program constants.                                                      *)
(***************************************************************************)
\* time.sleep(5) after a failed fetch
RetryDelay == 5

(***************************************************************************)
(* Message bodies.  A body is the text carried by a record; json_loads     *)
(* gives, for each text of the model, what json.loads gives for it.        *)
(***************************************************************************)
BodyGarbage  == "not valid json"
BodyFull     == "{\"data\": {\"key\": \"value\"}, \"metadata\": {}}"
BodyEmptyData == "{\"data\": {}}"
BodyNoData   == "{\"metadata\": {}}"
BodyNumber   == "5"
BodyString   == "\"data\""
BodyList     == "[]"
BodyTruncated == "{\"data\": "

Bodies ==
  {BodyGarbage, BodyFull, BodyEmptyData, BodyNoData, BodyNumber, BodyString, BodyList,
   BodyTruncated}

\* the bodies the poller's queue delivers in the model
QueueBodies == {BodyGarbage, BodyFull, BodyNoData, BodyNumber}

\* a marker for an absent dictionary key
Absent == "<absent>"

(***************************************************************************)
(* Exceptions: a type name and the text str(ex) gives.  IsInstance is the  *)
(* class hierarchy an except clause matches against.                       *)
(***************************************************************************)
Exc(t, m) == [type |-> t, msg |-> m]

NoExc == Exc("none", "")

Supers(t) ==
  CASE t = "JSONDecodeError" -> {"JSONDecodeError", "ValueError", "Exception"}
    [] t = "ValueError"      -> {"ValueError", "Exception"}
    [] t = "TypeError"       -> {"TypeError", "Exception"}
    [] t = "KeyError"        -> {"KeyError", "Exception"}
    [] t = "ClientError"     -> {"ClientError", "Exception"}
    [] t = "Exception"       -> {"Exception"}
    [] OTHER                 -> {}

IsInstance(ex, cls) == cls \in Supers(ex.type)

(***************************************************************************)
(* json.loads: the parsed value, or the JSONDecodeError it raises.         *)
(* A parsed value is [kind, keys]: the JSON type and, for a container,     *)
(* what the `in` operator finds in it.                                     *)
(***************************************************************************)
json_loads(body) ==
  CASE body = BodyFull      -> [ok |-> TRUE, exc |-> NoExc,
                                value |-> [kind |-> "object", keys |-> {"data", "metadata"}]]
    [] body = BodyEmptyData -> [ok |-> TRUE, exc |-> NoExc,
                                value |-> [kind |-> "object", keys |-> {"data"}]]
    [] body = BodyNoData    -> [ok |-> TRUE, exc |-> NoExc,
                                value |-> [kind |-> "object", keys |-> {"metadata"}]]
    [] body = BodyNumber    -> [ok |-> TRUE, exc |-> NoExc,
                                value |-> [kind |-> "number", keys |-> {}]]
    [] body = BodyString    -> [ok |-> TRUE, exc |-> NoExc,
                                value |-> [kind |-> "string", keys |-> {"data"}]]
    [] body = BodyList      -> [ok |-> TRUE, exc |-> NoExc,
                                value |-> [kind |-> "array", keys |-> {}]]
    [] body = BodyTruncated -> [ok |-> FALSE,
                                exc |-> Exc("JSONDecodeError",
                                            "Expecting value: line 1 column 10 (char 9)"),
                                value |-> [kind |-> "none", keys |-> {}]]
    [] OTHER                -> [ok |-> FALSE,
                                exc |-> Exc("JSONDecodeError",
                                            "Expecting value: line 1 column 1 (char 0)"),
                                value |-> [kind |-> "none", keys |-> {}]]

\* 'data' not in message_data: a number is not iterable and raises TypeError
DataMissing(value) ==
  IF value.kind = "number"
    THEN [ok |-> FALSE, exc |-> Exc("TypeError", "argument of type 'int' is not iterable"),
          missing |-> FALSE]
    ELSE [ok |-> TRUE, exc |-> NoExc, missing |-> "data" \notin value.keys]

\* a faulty variant of WrapLoadError: the parse error is raised again as it is
WrapLoadErrorReraises(ex) == ex

\* the exception raised when json.loads fails
WrapLoadError(ex) == Exc("Exception", "[Data Load Error] [" \o ex.msg \o "]")

\* process_sqs_message: NoExc when it returns normally, else the exception raised
process_sqs_message(message_body) ==
  LET loaded == json_loads(message_body) IN
  IF ~loaded.ok THEN WrapLoadError(loaded.exc)
  ELSE LET chk == DataMissing(loaded.value) IN
       IF ~chk.ok THEN chk.exc
       ELSE IF chk.missing THEN Exc("ValueError", "Message missing 'data' field")
       ELSE NoExc

(***************************************************************************)
(* State.                                                                  *)
(*   lambda_handler: event (its argument), response (its result), hpc (its *)
(*   position), rec_i (the for loop's position in event['Records']),       *)
(*   validator_calls (the records process_sqs_message was called for),     *)
(*   validator_results (what each of these calls raised, NoExc if none).   *)
(*   main: pc (its position), SHUTDOWN_REQUESTED, processed_count,         *)
(*   failed_count, batch (response['Messages'] of the fetch cycle at       *)
(*   hand), msg_i (the for loop's position in it), fetches (the            *)
(*   receive_message calls so far), delay (the argument of the time.sleep  *)
(*   in progress).                                                         *)
(*   Observations of the current fetch cycle: validated (the messages      *)
(*   process_sqs_message was called for), delete_calls (the receipt        *)
(*   handles delete_message was called with, in call order), deleted (the  *)
(*   handles whose delete_message returned), paused (a pause was taken     *)
(*   since the last receive_message call).                                 *)
(*   Observations of the whole run: delivered (the messages returned by    *)
(*   all receive_message calls so far), late_fetches (the receive_message  *)
(*   calls begun while SHUTDOWN_REQUESTED[0] was already true).            *)
(*   main's setup: environ (the value of SQS_ENDPOINT_URL in the process   *)
(*   environment, Absent when it is not set), sqs_client (the client and   *)
(*   the endpoint it was constructed with), queue_url.                     *)
(***************************************************************************)
VARIABLES event, response, hpc, rec_i, validator_calls, validator_results,
          pc, SHUTDOWN_REQUESTED, processed_count, failed_count,
          batch, msg_i, fetches, delay,
          validated, delete_calls, deleted, paused,
          delivered, late_fetches,
          environ, sqs_client, queue_url

handler_vars == <<event, response, hpc, rec_i, validator_calls, validator_results>>

\* what main's setup reads and builds
setup_vars == <<environ, sqs_client, queue_url>>

poller_vars == <<pc, SHUTDOWN_REQUESTED, processed_count, failed_count,
                 batch, msg_i, fetches, delay,
                 validated, delete_calls, deleted, paused,
                 delivered, late_fetches, setup_vars>>

vars == <<handler_vars, poller_vars>>

\* the sequences over S of length at most n
SeqsUpTo(S, n) == UNION {[1..k -> S] : k \in 0..n}

\* dict.get(key, default) on a field that may be absent
Get(field, default) == IF field = Absent THEN default ELSE field

(***************************************************************************)
(* lambda_handler                                                          *)
(***************************************************************************)
StatusOK == 200
StatusPartial == 207
StatusBadRequest == 400
StatusAllFailed == 500

\* a record of event['Records']: messageId and body may each be absent
SqsRecords == [messageId : {Absent, "m1"}, body : Bodies \cup {Absent}]

Events ==
  {[hasRecords |-> FALSE, Records |-> <<>>]}
    \cup {[hasRecords |-> TRUE, Records |-> rs] : rs \in SeqsUpTo(SqsRecords, MaxRecords)}

InitialResponse ==
  [statusCode |-> StatusOK, processed |-> 0, failed |-> 0, errors |-> <<>>]

\* a faulty variant of MissingBodyError: the record is not named
MissingBodyErrorNoId(record) == "Record missing 'body' field"

MissingBodyError(record) ==
  "Record missing 'body' field: " \o Get(record.messageId, "unknown")

ProcessingError(record, ex) ==
  "Error processing message " \o Get(record.messageId, "unknown") \o ": " \o ex.msg

\* a faulty variant of HandlerCatches: except ValueError instead of except Exception
HandlerCatchesOnlyValueError(ex) == IsInstance(ex, "ValueError")

\* the except clause of the record loop
HandlerCatches(ex) == IsInstance(ex, "Exception")

\* a faulty variant of StatusFor: the all-failed case is forgotten
StatusForNoAllFailed(resp) ==
  IF resp.failed > 0 THEN StatusPartial ELSE resp.statusCode

\* a faulty variant of StatusFor: a batch whose records all failed is a bad request
StatusForBadRequest(resp) ==
  IF resp.failed > 0
    THEN IF resp.processed = 0 THEN StatusBadRequest ELSE StatusPartial
    ELSE resp.statusCode

\* a faulty variant of StatusFor: no processed record means total failure
StatusForNoneProcessed(resp) ==
  IF resp.processed = 0 THEN StatusAllFailed
  ELSE IF resp.failed > 0 THEN StatusPartial ELSE resp.statusCode

\* the status code derived from the final counts
StatusFor(resp) ==
  IF resp.failed > 0
    THEN IF resp.processed = 0 THEN StatusAllFailed ELSE StatusPartial
    ELSE resp.statusCode

\* a faulty variant of NextRecord: a failed record ends the loop
NextRecordBreaksOnFailure(i, failedNow) ==
  IF failedNow THEN Len(event.Records) + 1 ELSE i + 1

\* the record the loop goes to after record i, whether or not record i failed
NextRecord(i, failedNow) == i + 1

\* a faulty variant of AddError: the newest error string is put first
AddErrorInFront(errors, text) == <<text>> \o errors

\* response['errors'].append(text)
AddError(errors, text) == Append(errors, text)

\* the call: the response is initialised and the Records key is looked for
HandlerEntry ==
  /\ hpc = "call"
  /\ IF ~event.hasRecords
       THEN /\ response' = [InitialResponse EXCEPT
                              !.statusCode = StatusBadRequest,
                              !.errors = AddError(@, "No 'Records' found in event")]
            /\ hpc' = "returned"
       ELSE /\ response' = InitialResponse
            /\ hpc' = "loop"
  /\ rec_i' = 1
  /\ UNCHANGED <<event, validator_calls, validator_results, poller_vars>>

\* one iteration of the record loop
HandleRecord ==
  /\ hpc = "loop"
  /\ rec_i <= Len(event.Records)
  /\ LET record == event.Records[rec_i] IN
     IF record.body = Absent
       THEN /\ response' = [response EXCEPT
                              !.failed = @ + 1,
                              !.errors = AddError(@, MissingBodyError(record))]
            /\ hpc' = "loop"
            /\ UNCHANGED <<validator_calls, validator_results>>
       ELSE LET ex == process_sqs_message(record.body) IN
            /\ validator_calls' = Append(validator_calls, rec_i)
            /\ validator_results' = Append(validator_results, ex)
            /\ IF ex = NoExc
                 THEN /\ response' = [response EXCEPT !.processed = @ + 1]
                      /\ hpc' = "loop"
                 ELSE IF HandlerCatches(ex)
                 THEN /\ response' = [response EXCEPT
                                        !.failed = @ + 1,
                                        !.errors = AddError(@, ProcessingError(record, ex))]
                      /\ hpc' = "loop"
                 ELSE /\ hpc' = "raised"
                      /\ UNCHANGED response
  /\ rec_i' = NextRecord(rec_i, response'.failed > response.failed)
  /\ UNCHANGED <<event, poller_vars>>

\* the loop is exhausted: the status code is set and the response returned
HandlerFinish ==
  /\ hpc = "loop"
  /\ rec_i > Len(event.Records)
  /\ response' = [response EXCEPT !.statusCode = StatusFor(response)]
  /\ hpc' = "returned"
  /\ UNCHANGED <<event, rec_i, validator_calls, validator_results, poller_vars>>

PollerIdle ==
  /\ pc = "idle"
  /\ SHUTDOWN_REQUESTED = FALSE
  /\ processed_count = 0
  /\ failed_count = 0
  /\ batch = <<>>
  /\ msg_i = 1
  /\ fetches = 0
  /\ delay = 0
  /\ validated = <<>>
  /\ delete_calls = <<>>
  /\ deleted = {}
  /\ paused = FALSE
  /\ delivered = 0
  /\ late_fetches = 0
  /\ environ = Absent
  /\ sqs_client = [made |-> FALSE, endpoint_url |-> Absent]
  /\ queue_url = "<None>"

HandlerInit ==
  /\ event \in Events
  /\ response = InitialResponse
  /\ hpc = "call"
  /\ rec_i = 1
  /\ validator_calls = <<>>
  /\ validator_results = <<>>
  /\ PollerIdle

HandlerNext == HandlerEntry \/ HandleRecord \/ HandlerFinish

HandlerSpec == HandlerInit /\ [][HandlerNext]_vars

(***************************************************************************)
(* main: the local poller                                                  *)
(***************************************************************************)
\* the exceptions a delete_message call may raise
DeleteFailures ==
  {Exc("ClientError", "delete failed"), Exc("JSONDecodeError", "bad response")}

\* the exceptions a receive_message call may raise
ReceiveFailures == {Exc("ClientError", "receive failed")}

\* the message lists a response may carry: each delivery has its own receipt handle
Batches(n) ==
  {[k \in 1..Len(bs) |-> [ReceiptHandle |-> <<n, k>>, Body |-> bs[k]]] :
     bs \in SeqsUpTo(QueueBodies, MaxBatch) \ {<<>>}}

Terminal == {"idle", "returned", "exit1", "crashed"}

\* a faulty variant of signal_handler: a second signal takes the request back
signal_handlerToggles ==
  /\ pc \notin Terminal
  /\ SHUTDOWN_REQUESTED' = ~SHUTDOWN_REQUESTED
  /\ UNCHANGED <<handler_vars, setup_vars, pc, processed_count, failed_count, batch, msg_i,
                 fetches, delivered, late_fetches, delay, validated, delete_calls, deleted, paused>>

\* SHUTDOWN_REQUESTED[0] = True, whenever a signal is delivered to the running process
signal_handler ==
  /\ pc \notin Terminal
  /\ SHUTDOWN_REQUESTED' = TRUE
  /\ UNCHANGED <<handler_vars, setup_vars, pc, processed_count, failed_count, batch, msg_i,
                 fetches, delivered, late_fetches, delay, validated, delete_calls, deleted, paused>>

\* Python's None
None == "<None>"

\* the values Python takes for false in `if endpoint_url` and `if not queue_url`
Falsy(x) == x \in {None, ""}

\* the values SQS_ENDPOINT_URL may have in the process environment
EndpointSettings == {Absent, "", "http://localstack:4566"}

\* os.environ.get('SQS_ENDPOINT_URL', 'http://localhost:4566')
DefaultEndpoint == "http://localhost:4566"

\* no client constructed yet
NoClient == [made |-> FALSE, endpoint_url |-> Absent]

\* a faulty variant of get_sqs_client: endpoint_url is passed on whatever it is
get_sqs_clientAlwaysEndpoint(endpoint_url) ==
  [made |-> TRUE, endpoint_url |-> endpoint_url]

\* get_sqs_client: the client, with the endpoint_url keyword it was constructed
\* with (Absent when session.client was called without one)
get_sqs_client(endpoint_url) ==
  IF ~Falsy(endpoint_url)
    THEN [made |-> TRUE, endpoint_url |-> endpoint_url]
    ELSE [made |-> TRUE, endpoint_url |-> Absent]

\* what sqs_client.get_queue_url may do: answer, or raise
QueueUrlOutcomes ==
  {[exc |-> NoExc, QueueUrl |-> "http://localhost:4566/000000000000/queue"],
   [exc |-> Exc("ClientError", "AWS.SimpleQueueService.NonExistentQueue"),
    QueueUrl |-> Absent],
   [exc |-> Exc("ClientError", "AccessDenied"), QueueUrl |-> Absent],
   [exc |-> Exc("Exception", "connection refused"), QueueUrl |-> Absent]}

\* get_queue_url: the URL, or None when the lookup raises
get_queue_url(outcome) ==
  IF outcome.exc = NoExc THEN outcome.QueueUrl
  ELSE IF IsInstance(outcome.exc, "ClientError") THEN None
  ELSE None

\* the client is constructed, or its construction raises and main exits with status 1
CreateClient ==
  /\ pc = "create_client"
  /\ \E ok \in BOOLEAN :
       IF ok
         THEN /\ sqs_client' = get_sqs_client(Get(environ, DefaultEndpoint))
              /\ pc' = "get_queue_url"
         ELSE /\ sqs_client' = NoClient
              /\ pc' = "exit1"
  /\ UNCHANGED <<handler_vars, SHUTDOWN_REQUESTED, processed_count, failed_count,
                 batch, msg_i, fetches, delivered, late_fetches, delay, validated, delete_calls, deleted, paused,
                 environ, queue_url>>

\* a faulty variant of GetQueueUrl: the URL is not looked at before the loop
GetQueueUrlUnchecked ==
  /\ pc = "get_queue_url"
  /\ \E outcome \in QueueUrlOutcomes : queue_url' = get_queue_url(outcome)
  /\ pc' = "loop"
  /\ processed_count' = 0
  /\ failed_count' = 0
  /\ UNCHANGED <<handler_vars, SHUTDOWN_REQUESTED, batch, msg_i, fetches, delivered, late_fetches, delay,
                 validated, delete_calls, deleted, paused, environ, sqs_client>>

\* the queue URL is looked up: without one main exits with status 1, with one the
\* counters are set to 0 and the polling loop is entered
GetQueueUrl ==
  /\ pc = "get_queue_url"
  /\ \E outcome \in QueueUrlOutcomes : queue_url' = get_queue_url(outcome)
  /\ pc' = IF Falsy(queue_url') THEN "exit1" ELSE "loop"
  /\ processed_count' = 0
  /\ failed_count' = 0
  /\ UNCHANGED <<handler_vars, SHUTDOWN_REQUESTED, batch, msg_i, fetches, delivered, late_fetches, delay,
                 validated, delete_calls, deleted, paused, environ, sqs_client>>

\* a faulty variant of LoopCheck: while True
LoopCheckIgnoresFlag ==
  /\ pc = "loop"
  /\ fetches < MaxFetches
  /\ pc' = "receive"
  /\ batch' = <<>>
  /\ msg_i' = 1
  /\ validated' = <<>>
  /\ delete_calls' = <<>>
  /\ deleted' = {}
  /\ UNCHANGED <<handler_vars, setup_vars, SHUTDOWN_REQUESTED, processed_count, failed_count,
                 fetches, delivered, late_fetches, delay, paused>>

\* while not SHUTDOWN_REQUESTED[0]: on exit the totals are logged and main returns.
\* A run of the model enters the loop body at most MaxFetches times; as it is
\* entered, the last cycle's messages and observations are dropped.
LoopCheck ==
  /\ pc = "loop"
  /\ SHUTDOWN_REQUESTED \/ fetches < MaxFetches
  /\ IF SHUTDOWN_REQUESTED
       THEN /\ pc' = "returned"
            /\ UNCHANGED <<batch, msg_i, validated, delete_calls, deleted>>
       ELSE /\ pc' = "receive"
            /\ batch' = <<>>
            /\ msg_i' = 1
            /\ validated' = <<>>
            /\ delete_calls' = <<>>
            /\ deleted' = {}
  /\ UNCHANGED <<handler_vars, setup_vars, SHUTDOWN_REQUESTED, processed_count, failed_count,
                 fetches, delivered, late_fetches, delay, paused>>

\* a faulty variant of AfterMessage: the shutdown flag is looked at between messages
AfterMessageChecksFlag ==
  IF msg_i + 1 <= Len(batch) /\ ~SHUTDOWN_REQUESTED THEN "process" ELSE "loop"

\* where the message loop goes after the message at msg_i
AfterMessage == IF msg_i + 1 <= Len(batch) THEN "process" ELSE "loop"

\* receive_message: it raises, or returns a response with or without 'Messages'
Receive ==
  /\ pc = "receive"
  /\ fetches' = fetches + 1
  /\ \/ /\ \E ex \in ReceiveFailures : pc' = "fetch_error"
        /\ batch' = <<>>
     \/ /\ pc' = "loop"
        /\ batch' = <<>>
     \/ /\ batch' \in Batches(fetches + 1)
        /\ pc' = "process"
  /\ msg_i' = 1
  /\ validated' = <<>>
  /\ delete_calls' = <<>>
  /\ deleted' = {}
  /\ paused' = FALSE
  /\ delivered' = delivered + Len(batch')
  /\ late_fetches' = late_fetches + (IF SHUTDOWN_REQUESTED THEN 1 ELSE 0)
  /\ UNCHANGED <<handler_vars, setup_vars, SHUTDOWN_REQUESTED, processed_count, failed_count, delay>>

\* a faulty variant of HandleFetchError: the pause is taken whatever the flag says
HandleFetchErrorAlwaysSleeps ==
  /\ pc = "fetch_error"
  /\ pc' = "sleep"
  /\ delay' = RetryDelay
  /\ UNCHANGED <<handler_vars, setup_vars, SHUTDOWN_REQUESTED, processed_count, failed_count,
                 batch, msg_i, fetches, delivered, late_fetches, validated, delete_calls, deleted, paused>>

\* a faulty variant of HandleFetchError: the fetch is retried from the except clause
\* itself, without going back through the loop condition
HandleFetchErrorRetriesAtOnce ==
  /\ pc = "fetch_error"
  /\ pc' = "receive"
  /\ delay' = 0
  /\ UNCHANGED <<handler_vars, setup_vars, SHUTDOWN_REQUESTED, processed_count, failed_count,
                 batch, msg_i, fetches, delivered, late_fetches, validated, delete_calls,
                 deleted, paused>>

\* the except clause of the polling loop: pause unless shutdown was requested
HandleFetchError ==
  /\ pc = "fetch_error"
  /\ IF ~SHUTDOWN_REQUESTED
       THEN pc' = "sleep" /\ delay' = RetryDelay
       ELSE pc' = "loop" /\ delay' = 0
  /\ UNCHANGED <<handler_vars, setup_vars, SHUTDOWN_REQUESTED, processed_count, failed_count,
                 batch, msg_i, fetches, delivered, late_fetches, validated, delete_calls, deleted, paused>>

\* time.sleep returns
Sleep ==
  /\ pc = "sleep"
  /\ pc' = "loop"
  /\ delay' = 0
  /\ paused' = TRUE
  /\ UNCHANGED <<handler_vars, setup_vars, SHUTDOWN_REQUESTED, processed_count, failed_count,
                 batch, msg_i, fetches, delivered, late_fetches, validated, delete_calls, deleted>>

\* a faulty variant of IsParseError: except ValueError instead of json.JSONDecodeError
IsParseErrorValueError(ex) == IsInstance(ex, "ValueError")

\* the first except clause of the message loop
IsParseError(ex) == IsInstance(ex, "JSONDecodeError")

\* a faulty variant of MessageExcept: the last clause is except ValueError
MessageExceptNarrow(ex) ==
  IF IsParseError(ex)
    THEN /\ failed_count' = failed_count + 1
         /\ pc' = "poison_delete"
         /\ UNCHANGED msg_i
    ELSE IF IsInstance(ex, "ValueError")
    THEN /\ failed_count' = failed_count + 1
         /\ pc' = AfterMessage
         /\ msg_i' = msg_i + 1
    ELSE /\ pc' = "crashed"
         /\ UNCHANGED <<failed_count, msg_i>>

\* a faulty variant of MessageExcept: the last clause logs the failure without
\* counting it
MessageExceptUncounted(ex) ==
  IF IsParseError(ex)
    THEN /\ failed_count' = failed_count + 1
         /\ pc' = "poison_delete"
         /\ UNCHANGED msg_i
    ELSE IF IsInstance(ex, "Exception")
    THEN /\ failed_count' = failed_count
         /\ pc' = AfterMessage
         /\ msg_i' = msg_i + 1
    ELSE /\ pc' = "crashed"
         /\ UNCHANGED <<failed_count, msg_i>>

\* the except clauses of the message loop, for an exception raised in its try block
MessageExcept(ex) ==
  IF IsParseError(ex)
    THEN /\ failed_count' = failed_count + 1
         /\ pc' = "poison_delete"
         /\ UNCHANGED msg_i
    ELSE IF IsInstance(ex, "Exception")
    THEN /\ failed_count' = failed_count + 1
         /\ pc' = AfterMessage
         /\ msg_i' = msg_i + 1
    ELSE /\ pc' = "crashed"
         /\ UNCHANGED <<failed_count, msg_i>>

\* process_sqs_message(message['Body'], datamap) in the message loop
Process ==
  /\ pc = "process"
  /\ LET message == batch[msg_i]
         ex == process_sqs_message(message.Body) IN
     /\ validated' = Append(validated, message.ReceiptHandle)
     /\ IF ex = NoExc
          THEN pc' = "delete" /\ UNCHANGED <<failed_count, msg_i>>
          ELSE MessageExcept(ex)
  /\ UNCHANGED <<handler_vars, setup_vars, SHUTDOWN_REQUESTED, processed_count, batch, fetches, delivered, late_fetches,
                 delay, delete_calls, deleted, paused>>

\* a faulty variant of Delete: a failed delete_message is swallowed and counted
DeleteSwallowsError ==
  /\ pc = "delete"
  /\ LET handle == batch[msg_i].ReceiptHandle IN
     /\ delete_calls' = Append(delete_calls, handle)
     /\ \E ex \in {NoExc} \cup DeleteFailures :
          deleted' = IF ex = NoExc THEN deleted \cup {handle} ELSE deleted
  /\ pc' = "count"
  /\ UNCHANGED <<handler_vars, setup_vars, SHUTDOWN_REQUESTED, processed_count, failed_count,
                 batch, msg_i, fetches, delivered, late_fetches, delay, validated, paused>>

\* delete_message after a successful validation
Delete ==
  /\ pc = "delete"
  /\ LET handle == batch[msg_i].ReceiptHandle IN
     /\ delete_calls' = Append(delete_calls, handle)
     /\ \E ex \in {NoExc} \cup DeleteFailures :
          IF ex = NoExc
            THEN /\ deleted' = deleted \cup {handle}
                 /\ pc' = "count"
                 /\ UNCHANGED <<failed_count, msg_i>>
            ELSE /\ MessageExcept(ex)
                 /\ UNCHANGED deleted
  /\ UNCHANGED <<handler_vars, setup_vars, SHUTDOWN_REQUESTED, processed_count, batch, fetches, delivered, late_fetches,
                 delay, validated, paused>>

\* processed_count += 1
Count ==
  /\ pc = "count"
  /\ processed_count' = processed_count + 1
  /\ pc' = AfterMessage
  /\ msg_i' = msg_i + 1
  /\ UNCHANGED <<handler_vars, setup_vars, SHUTDOWN_REQUESTED, failed_count, batch, fetches, delivered, late_fetches,
                 delay, validated, delete_calls, deleted, paused>>

\* delete_message in the JSONDecodeError clause; its own failure is caught
PoisonDelete ==
  /\ pc = "poison_delete"
  /\ LET handle == batch[msg_i].ReceiptHandle IN
     /\ delete_calls' = Append(delete_calls, handle)
     /\ \E ex \in {NoExc} \cup DeleteFailures :
          deleted' = IF ex = NoExc THEN deleted \cup {handle} ELSE deleted
  /\ pc' = AfterMessage
  /\ msg_i' = msg_i + 1
  /\ UNCHANGED <<handler_vars, setup_vars, SHUTDOWN_REQUESTED, processed_count, failed_count,
                 batch, fetches, delivered, late_fetches, delay, validated, paused>>

HandlerIdle ==
  /\ event = [hasRecords |-> FALSE, Records |-> <<>>]
  /\ response = InitialResponse
  /\ hpc = "idle"
  /\ rec_i = 1
  /\ validator_calls = <<>>
  /\ validator_results = <<>>

\* main after its signal handlers are installed and its configuration read
Init ==
  /\ HandlerIdle
  /\ pc = "create_client"
  /\ SHUTDOWN_REQUESTED = FALSE
  /\ processed_count = 0
  /\ failed_count = 0
  /\ batch = <<>>
  /\ msg_i = 1
  /\ fetches = 0
  /\ delay = 0
  /\ validated = <<>>
  /\ delete_calls = <<>>
  /\ deleted = {}
  /\ paused = FALSE
  /\ delivered = 0
  /\ late_fetches = 0
  /\ environ \in EndpointSettings
  /\ sqs_client = NoClient
  /\ queue_url = None

Next ==
  \/ signal_handler
  \/ CreateClient
  \/ GetQueueUrl
  \/ LoopCheck
  \/ Receive
  \/ HandleFetchError
  \/ Sleep
  \/ Process
  \/ Delete
  \/ Count
  \/ PoisonDelete

Spec == Init /\ [][Next]_vars

\* the steps of main itself
MainStep ==
  \/ CreateClient
  \/ GetQueueUrl
  \/ LoopCheck
  \/ Receive
  \/ HandleFetchError
  \/ Sleep
  \/ Process
  \/ Delete
  \/ Count
  \/ PoisonDelete

\* main keeps running: every call it makes returns or raises, every pause ends
LiveSpec == Spec /\ WF_vars(MainStep)

(***************************************************************************)
(* Properties.                                                             *)
(***************************************************************************)
Range(s) == {s[k] : k \in 1..Len(s)}

\* the messages of the current batch whose handling is over
Handled == {k \in 1..Len(batch) : k < msg_i}

\* the body is not valid JSON
Unparseable(body) == ~json_loads(body).ok

\* process_sqs_message fails on the body, and not because the body does not parse
FailsOtherwise(body) == json_loads(body).ok /\ process_sqs_message(body) # NoExc

\* the records of the event that cannot be processed
FailingRecords ==
  {k \in 1..Len(event.Records) :
     \/ event.Records[k].body = Absent
     \/ process_sqs_message(event.Records[k].body) # NoExc}

\* C1: in the poller every handled message whose body does not parse has had a
\* delete issued for its receipt handle (it is acknowledged as a poison message).
C1_ParseFailureIsDeleted ==
  \A k \in Handled :
    Unparseable(batch[k].Body) => batch[k].ReceiptHandle \in Range(delete_calls)

\* C2: for an event with Records the status code stays 200 while the records are
\* handled and is set once, on return, from the final counts: 200 when nothing
\* failed, 207 when some failed and some were processed, 500 when all failed.
C2_StatusFromFinalCounts ==
  event.hasRecords =>
    /\ hpc = "loop" => response.statusCode = 200
    /\ hpc = "returned" =>
         /\ rec_i = Len(event.Records) + 1
         /\ response.statusCode =
              IF response.failed = 0 THEN 200
              ELSE IF response.processed > 0 THEN 207 ELSE 500

C2_Witness ==
  /\ hpc = "returned"
  /\ response.statusCode = 207
  /\ response.processed > 0
  /\ response.failed > 0

\* C3: lambda_handler never raises: it returns a result, and every record that
\* cannot be processed (no body, parse failure, schema failure, any other error)
\* is counted in failed, has an error string, and makes the status differ from 200.
C3_HandlerNeverRaises ==
  /\ hpc # "raised"
  /\ hpc = "returned" /\ event.hasRecords =>
       /\ response.failed = Cardinality(FailingRecords)
       /\ Len(response.errors) = response.failed
       /\ (response.failed > 0) = (response.statusCode # 200)

C3_Witness ==
  /\ hpc = "returned"
  /\ \E k \in FailingRecords : event.Records[k].body = Absent
  /\ \E k \in FailingRecords : event.Records[k].body = BodyGarbage
  /\ \E k \in FailingRecords : event.Records[k].body = BodyNumber
  /\ response.failed = 3

\* C4: a failed record never ends the batch: the records are handled one by one in
\* arrival order, each counted once, so processed + failed is the number of records
\* handled so far and, on return, the number of records of the event.
C4_EveryRecordHandledOnce ==
  event.hasRecords /\ hpc \in {"loop", "returned"} =>
    /\ response.processed + response.failed = rec_i - 1
    /\ validator_calls =
         SelectSeq([k \in 1..(rec_i - 1) |-> k],
                   LAMBDA k : event.Records[k].body # Absent)
    /\ hpc = "returned" =>
         response.processed + response.failed = Len(event.Records)

C4_Witness ==
  /\ hpc = "returned"
  /\ Len(event.Records) = 3
  /\ 1 \in FailingRecords
  /\ 2 \notin FailingRecords
  /\ 3 \in FailingRecords
  /\ response.processed = 1
  /\ response.failed = 2

\* C5: an event without Records is answered at once with status 400, no processed
\* and no failed record, exactly one error string and no validator call; status
\* 400 is the answer in no other case.
C5_NoRecordsIsBadRequest ==
  /\ ~event.hasRecords => hpc \in {"call", "returned"}
  /\ hpc = "returned" /\ ~event.hasRecords =>
       /\ response.statusCode = 400
       /\ response.processed = 0
       /\ response.failed = 0
       /\ Len(response.errors) = 1
       /\ validator_calls = <<>>
  /\ response.statusCode = 400 => ~event.hasRecords

C5_Witness ==
  /\ hpc = "returned"
  /\ ~event.hasRecords
  /\ response.statusCode = 400

\* C6: in the poller a message on which process_sqs_message fails for another
\* reason than a parse failure (no 'data', or any other error) adds one to
\* failed_count and nothing to processed_count, and no delete is ever issued for
\* its receipt handle in that delivery.
C6_OtherFailureNotDeleted ==
  [][/\ pc = "process" /\ pc' # pc /\ FailsOtherwise(batch[msg_i].Body) =>
          /\ failed_count' = failed_count + 1
          /\ processed_count' = processed_count
          /\ delete_calls' = delete_calls
          /\ msg_i' = msg_i + 1
          /\ pc' \in {"process", "loop"}
     /\ \A k \in 1..Len(batch') :
          FailsOtherwise(batch'[k].Body) =>
            batch'[k].ReceiptHandle \notin Range(delete_calls')]_vars

C6_Witness ==
  /\ Len(batch) = 2
  /\ batch[1].Body = BodyNoData
  /\ batch[2].Body = BodyNumber
  /\ pc = "loop"
  /\ msg_i = 3
  /\ failed_count = 2
  /\ delete_calls = <<>>

\* C7: processed_count is incremented only by one, only for the message at hand,
\* and only once process_sqs_message has succeeded on it and the delete_message
\* call for its receipt handle has returned.
C7_DeleteBeforeCount ==
  [][processed_count' # processed_count =>
       /\ processed_count' = processed_count + 1
       /\ pc = "count"
       /\ process_sqs_message(batch[msg_i].Body) = NoExc
       /\ batch[msg_i].ReceiptHandle \in deleted
       /\ batch[msg_i].ReceiptHandle \in Range(validated)]_vars

C7_Witness ==
  /\ Len(batch) >= 1
  /\ processed_count = 1
  /\ msg_i = 2
  /\ batch[1].ReceiptHandle \in deleted

\* the delete_message call issued after a successful validation fails in this step
DeleteFails ==
  /\ pc = "delete"
  /\ delete_calls' # delete_calls
  /\ deleted' = deleted

\* no receipt handle occurs twice in the sequence
NoRepeat(s) == \A a, b \in 1..Len(s) : s[a] = s[b] => a = b

\* C8: when the delete_message call after a successful validation fails, the
\* poller does not crash or stop: the message is counted as failed and is not
\* validated again, and the poller goes on to the next message of the batch or,
\* after the last one, to the loop boundary and the next fetch.
C8_DeleteFailureIsSurvived ==
  [][/\ DeleteFails =>
          /\ failed_count' = failed_count + 1
          /\ validated' = validated
          /\ \/ pc' = "poison_delete" /\ msg_i' = msg_i
             \/ pc' = "process" /\ msg_i' = msg_i + 1 /\ msg_i' <= Len(batch)
             \/ pc' = "loop" /\ msg_i' = msg_i + 1 /\ msg_i' > Len(batch)
     /\ pc = "poison_delete" /\ pc' # pc =>
          /\ validated' = validated
          /\ msg_i' = msg_i + 1
          /\ pc' = IF msg_i' <= Len(batch) THEN "process" ELSE "loop"
     /\ pc = "loop" /\ pc' # pc /\ ~SHUTDOWN_REQUESTED => pc' = "receive"
     /\ NoRepeat(validated')
     /\ pc' # "crashed"]_vars

C8_Witness ==
  /\ Len(batch) = 2
  /\ batch[1].Body = BodyFull
  /\ delete_calls = <<batch[1].ReceiptHandle>>
  /\ deleted = {}
  /\ pc = "process"
  /\ msg_i = 2
  /\ validated = <<batch[1].ReceiptHandle>>

\* C9: main leaves the polling loop only at the loop boundary, on reading the flag
\* true, with every message of the last fetched batch validated; while a fetch or a
\* batch is in progress a set flag changes nothing: the fetch returns and the
\* messages are handled one after the other.
C9_NoMidBatchCancellation ==
  [][/\ pc' = "returned" /\ pc # "returned" =>
          /\ pc = "loop"
          /\ SHUTDOWN_REQUESTED
          /\ msg_i = Len(batch) + 1
          /\ validated = [k \in 1..Len(batch) |-> batch[k].ReceiptHandle]
     /\ SHUTDOWN_REQUESTED /\ pc' # pc
          /\ pc \in {"process", "delete", "count", "poison_delete"} =>
          \/ pc' \in {"delete", "count", "poison_delete"} /\ msg_i' = msg_i
          \/ pc' = "process" /\ msg_i' = msg_i + 1 /\ msg_i' <= Len(batch)
          \/ pc' = "loop" /\ msg_i' = msg_i + 1 /\ msg_i' > Len(batch)
     /\ SHUTDOWN_REQUESTED /\ pc = "receive" /\ pc' # pc =>
          pc' \in {"process", "loop", "fetch_error"}]_vars

C9_Witness ==
  /\ pc = "returned"
  /\ SHUTDOWN_REQUESTED
  /\ Len(batch) = 2
  /\ Len(validated) = 2
  /\ processed_count + failed_count = 2
  /\ fetches = 1

\* C10 as stated: once the poller has paused after a failed fetch, it retries the
\* fetch before the loop ends.
C10_PauseThenRetry == pc = "returned" => ~paused

\* C10 as amended: a failed fetch never ends main by itself.  When the flag is
\* false as the failure is handled, the poller pauses for 5 seconds, whatever came
\* before, and then goes back to the loop boundary, where it fetches again unless
\* the flag has been set in the meantime; when the flag is true, there is no pause
\* and no retry: the loop boundary ends the loop.
C10_FetchFailureIsRetried ==
  [][/\ pc = "fetch_error" /\ pc' # pc =>
          IF SHUTDOWN_REQUESTED
            THEN pc' = "loop" /\ delay' = 0 /\ ~paused'
            ELSE pc' = "sleep" /\ delay' = 5
     /\ pc = "sleep" /\ pc' # pc => pc' = "loop" /\ paused'
     /\ pc = "loop" /\ pc' # pc =>
          pc' = IF SHUTDOWN_REQUESTED THEN "returned" ELSE "receive"
     /\ pc' = "sleep" => pc \in {"fetch_error", "sleep"} /\ delay' = 5
     /\ pc \in {"fetch_error", "sleep"} => pc' \notin {"crashed", "exit1", "returned"}]_vars

C10_Witness ==
  /\ pc = "receive"
  /\ paused
  /\ fetches = 1
  /\ ~SHUTDOWN_REQUESTED

\* the body, as the record of position j among the validator's calls carried it
CalledBody(j) == event.Records[validator_calls[j]].body

\* the body parses to a JSON object that has the key 'data'
HasDataKey(body) ==
  /\ json_loads(body).ok
  /\ json_loads(body).value.kind = "object"
  /\ "data" \in json_loads(body).value.keys

\* C11: process_sqs_message returns normally exactly when the body parses as JSON
\* and the parsed value has a top-level 'data' key.
C11_ValidIffDataKey ==
  \A j \in 1..Len(validator_results) :
    (validator_results[j] = NoExc) <=> HasDataKey(CalledBody(j))

\* C12: on every body that parses but has no 'data' key, whatever the parsed value
\* is, process_sqs_message raises a ValueError naming the missing 'data' field.
C12_NoDataIsValueError ==
  \A j \in 1..Len(validator_results) :
    json_loads(CalledBody(j)).ok /\ ~HasDataKey(CalledBody(j)) =>
      /\ validator_results[j].type = "ValueError"
      /\ validator_results[j].msg = "Message missing 'data' field"

\* C13: on every body that does not parse, process_sqs_message raises a plain
\* Exception, which is no ValueError, whose text is the 'Data Load Error' marker
\* around the text of the parse error; a ValueError is raised for parsed bodies only.
C13_ParseFailureKind ==
  \A j \in 1..Len(validator_results) :
    /\ Unparseable(CalledBody(j)) =>
         /\ validator_results[j].type = "Exception"
         /\ ~IsInstance(validator_results[j], "ValueError")
         /\ validator_results[j].msg =
              "[Data Load Error] [" \o json_loads(CalledBody(j)).exc.msg \o "]"
         /\ validator_results[j].msg # "Message missing 'data' field"
    /\ IsInstance(validator_results[j], "ValueError") => ~Unparseable(CalledBody(j))

C13_Witness ==
  /\ hpc = "returned"
  /\ Len(validator_results) = 2
  /\ CalledBody(1) = BodyGarbage
  /\ CalledBody(2) = BodyTruncated
  /\ validator_results[1] # validator_results[2]

\* C14: a record without a body adds one to failed and one error string naming the
\* record's messageId, or 'unknown' without one; process_sqs_message is not called
\* for it and the loop goes on with the next record.
C14_MissingBodyIsCounted ==
  [][hpc = "loop" /\ rec_i <= Len(event.Records) /\ rec_i' # rec_i
       /\ event.Records[rec_i].body = Absent =>
       /\ response'.failed = response.failed + 1
       /\ response'.processed = response.processed
       /\ response'.statusCode = response.statusCode
       /\ response'.errors =
            Append(response.errors,
                   IF event.Records[rec_i].messageId = Absent
                     THEN "Record missing 'body' field: unknown"
                     ELSE "Record missing 'body' field: " \o event.Records[rec_i].messageId)
       /\ validator_calls' = validator_calls
       /\ hpc' = "loop"
       /\ rec_i' = rec_i + 1]_vars

C14_Witness ==
  /\ hpc = "returned"
  /\ Len(event.Records) = 2
  /\ event.Records[1] = [messageId |-> Absent, body |-> Absent]
  /\ event.Records[2].body = BodyFull
  /\ response.errors = <<"Record missing 'body' field: unknown">>
  /\ response.processed = 1
  /\ validator_calls = <<2>>

\* the error string the handler owes to failing record k
ErrorOf(k) ==
  LET record == event.Records[k]
      id == IF record.messageId = Absent THEN "unknown" ELSE record.messageId IN
  IF record.body = Absent
    THEN "Record missing 'body' field: " \o id
    ELSE "Error processing message " \o id \o ": " \o process_sqs_message(record.body).msg

\* the failing records among the first n, in arrival order
FailingUpTo(n) ==
  SelectSeq([k \in 1..n |-> k], LAMBDA k : k \in FailingRecords)

\* C15 as stated: a returned result holds one error string per failed record.
C15_OneErrorPerFailure == hpc = "returned" => Len(response.errors) = response.failed

\* C15 as amended: for an event that carries Records, at every point of the loop
\* and on return, errors holds exactly one string per failed record, the k-th
\* string being the one of the k-th failed record in arrival order; the result for
\* an event without Records holds one error string and no failed record.
C15_ErrorsFollowFailures ==
  /\ event.hasRecords /\ hpc \in {"loop", "returned"} =>
       /\ Len(response.errors) = response.failed
       /\ response.errors =
            [j \in 1..Len(FailingUpTo(rec_i - 1)) |-> ErrorOf(FailingUpTo(rec_i - 1)[j])]
  /\ ~event.hasRecords /\ hpc = "returned" =>
       Len(response.errors) = 1 /\ response.failed = 0

C15_Witness ==
  /\ hpc = "returned"
  /\ Len(event.Records) = 3
  /\ FailingRecords = {1, 3}
  /\ response.failed = 2
  /\ response.errors[1] = ErrorOf(1)
  /\ response.errors[2] = ErrorOf(3)
  /\ ErrorOf(1) # ErrorOf(3)

\* C17: an event whose Records collection is empty is answered with status 200,
\* nothing processed, nothing failed and no error string.
C17_EmptyRecordsIsSuccess ==
  hpc = "returned" /\ event.hasRecords /\ Len(event.Records) = 0 =>
    /\ response.statusCode = 200
    /\ response.processed = 0
    /\ response.failed = 0
    /\ response.errors = <<>>

C17_Witness ==
  /\ hpc = "returned"
  /\ event.hasRecords
  /\ event.Records = <<>>
  /\ response.statusCode = 200

\* client construction failed, or no queue URL was found
SetupFailed ==
  \/ pc # "create_client" /\ ~sqs_client.made
  \/ pc \notin {"create_client", "get_queue_url"} /\ queue_url \in {"<None>", ""}

\* C16: when the client cannot be constructed or the queue URL cannot be found,
\* main has exited with status 1 before the polling loop: no receive_message and
\* no delete_message call was made, no message was validated.
C16_SetupFailureExits ==
  SetupFailed =>
    /\ pc = "exit1"
    /\ fetches = 0
    /\ delete_calls = <<>>
    /\ deleted = {}
    /\ validated = <<>>

C16_Witness ==
  /\ pc = "exit1"
  /\ sqs_client.made
  /\ queue_url = "<None>"
  /\ fetches = 0

\* C18 as stated: without SQS_ENDPOINT_URL in the environment the client is
\* constructed without a custom endpoint.
C18_AbsentMeansNoEndpoint ==
  environ = Absent /\ sqs_client.made => sqs_client.endpoint_url = Absent

\* C18 as amended: without SQS_ENDPOINT_URL in the environment the client is
\* constructed with the endpoint http://localhost:4566; with a non-empty setting it
\* is constructed with that endpoint; it is constructed without a custom endpoint
\* exactly when SQS_ENDPOINT_URL is set to the empty string.
C18_AbsentMeansLocalEndpoint ==
  sqs_client.made =>
    /\ environ = Absent => sqs_client.endpoint_url = "http://localhost:4566"
    /\ environ \notin {Absent, ""} => sqs_client.endpoint_url = environ
    /\ (environ = "") <=> (sqs_client.endpoint_url = Absent)

C18_Witness ==
  /\ environ = Absent
  /\ sqs_client.made
  /\ sqs_client.endpoint_url = "http://localhost:4566"
  /\ pc = "receive"

\* C19: once the flag is set while main is in its polling loop, main eventually
\* leaves the loop and returns normally, provided every call returns or raises.
C19_ShutdownTerminates ==
  (SHUTDOWN_REQUESTED /\ pc \in {"loop", "receive", "fetch_error", "sleep", "process",
                                 "delete", "count", "poison_delete"})
    ~> (pc = "returned")

C19_Witness ==
  /\ pc = "returned"
  /\ SHUTDOWN_REQUESTED
  /\ fetches = 2
  /\ processed_count = 1
  /\ failed_count = 1

\* C20: the flag is false when main starts; it changes only in a step of
\* signal_handler, which changes nothing else, and only from false to true.
C20_FlagIsMonotonic ==
  /\ SHUTDOWN_REQUESTED = FALSE
  /\ [][/\ SHUTDOWN_REQUESTED => SHUTDOWN_REQUESTED'
        /\ SHUTDOWN_REQUESTED' # SHUTDOWN_REQUESTED =>
             /\ SHUTDOWN_REQUESTED' = TRUE
             /\ pc' = pc
             /\ UNCHANGED <<processed_count, failed_count, batch, msg_i, fetches>>]_vars

C20_Witness ==
  /\ SHUTDOWN_REQUESTED
  /\ pc = "delete"
  /\ msg_i = 2

\* C21: of the receive_message calls of a run, at most one begins while the flag
\* is already true (the one whose loop check came before the signal); after it
\* no further fetch begins.
C21_AtMostOneLateFetch == late_fetches <= 1

C21_Witness ==
  /\ pc = "returned"
  /\ late_fetches = 1
  /\ fetches = 2
  /\ delivered = 3

\* the messages of the batch at hand that a counter has been incremented for
Counted == (msg_i - 1) + (IF pc = "poison_delete" THEN 1 ELSE 0)

\* the counters account for every delivery whose handling has got to its count
AccountingIsExact ==
  /\ processed_count + failed_count = delivered - Len(batch) + Counted
  /\ pc \in {"loop", "returned"} => processed_count + failed_count = delivered

\* a step counts at most one message, in one counter, and never counts down; a
\* fetch begins only when every message delivered so far has been counted
AccountingStep ==
  /\ processed_count' >= processed_count
  /\ failed_count' >= failed_count
  /\ (processed_count' + failed_count') - (processed_count + failed_count) \in {0, 1}
  /\ fetches' # fetches => processed_count + failed_count = delivered

\* C22: every message returned by a fetch is counted exactly once, in exactly one
\* of processed_count and failed_count, before the next fetch begins: at every
\* loop boundary the two counters add up to the number of messages returned by
\* all fetches so far, and neither counter ever decreases.
C22_AccountingIsExact == []AccountingIsExact /\ [][AccountingStep]_vars

C22_Witness ==
  /\ pc = "loop"
  /\ fetches = 2
  /\ delivered = 4
  /\ processed_count = 2
  /\ failed_count = 2
=============================================================================
